---- MODULE Spec2Model ----
(***************************************************************************)
(* Model of the AI Story Generator: the Streamlit script app.py and the    *)
(* backend module Story_Generation.py.  One action is one run of the       *)
(* script (Streamlit re-runs app.py from top to bottom on every widget     *)
(* interaction); the backend functions are operators computed the way the  *)
(* Python code computes them.                                              *)
(***************************************************************************)
EXTENDS Integers, Sequences, FiniteSets, TLC

\* ---------------------------------------------------------------- bounds
MaxUpload == 11      \* most files the user puts into the uploader
MaxPcmLen == 4       \* longest short PCM payload of a reply, in bytes
SilenceLen == 600    \* length of the long, silent PCM payload, in bytes
MaxLead   == 1       \* most text parts ahead of the last part of a reply
MaxFiles  == 1       \* temporary files the model lets pile up on disk

\* ------------------------------------------------------ program constants
MaxImages   == 10
NChannels   == 1
SampWidth   == 2
FrameRate   == 24000
HeaderSize  == 44

None == "<None>"
NoPath == 0          \* a None in the place of a temporary file's path
Absent == "<absent>" \* no "generated_story" key in st.session_state

\* values of os.getenv("GOOGLE_API_KEY"): unset, empty, set
ApiKeys == {None, "", "key"}

\* the selectbox options of app.py
StoryTypes ==
    {"Comedy", "Thriller", "Moral", "Horror", "Emotional",
     "Adventurous", "Action", "Mysterious", "Fantasy", "Fairy Tale"}

\* the tone lines of the prompt template, in order
ToneLines ==
    << [genre |-> "Horror",     tone |-> "spooky and mysterious"],
       [genre |-> "Comedy",     tone |-> "light and funny"],
       [genre |-> "Adventure",  tone |-> "exciting and bold"],
       [genre |-> "Emotional",  tone |-> "touching and heartfelt"],
       [genre |-> "Thriller",   tone |-> "full of suspense"],
       [genre |-> "Moral",      tone |-> "gives a life lesson"],
       [genre |-> "Fantasy",    tone |-> "magical and creative"],
       [genre |-> "Fairy Tale", tone |-> "simple and dreamlike"],
       [genre |-> "Action",     tone |-> "fast and powerful"],
       [genre |-> "Mystery",    tone |-> "curious and clever"] >>

model_name_1 == "gemini-2.5-pro"
model_name_2 == "gemini-2.5-flash-preview-tts"

\* low-level exceptions the SDK call can raise: transport, authentication,
\* service side
RemoteErrors == {"ConnectError", "ClientError401", "ServerError500"}

\* texts the generation service can answer with (response.text)
StoryTexts == {"s1", "s2"}
GenTexts   == StoryTexts \cup {"", None}

\* ------------------------------------------------------------ byte helpers
U16LE(n) == << n % 256, (n \div 256) % 256 >>
U32LE(n) == << n % 256, (n \div 256) % 256,
               (n \div 65536) % 256, (n \div 16777216) % 256 >>

RdU16(b, off) == b[off + 1] + 256 * b[off + 2]
RdU32(b, off) == b[off + 1] + 256 * b[off + 2]
                 + 65536 * b[off + 3] + 16777216 * b[off + 4]

TagRIFF == << 82, 73, 70, 70 >>
TagWAVE == << 87, 65, 86, 69 >>
TagFmt  == << 102, 109, 116, 32 >>
TagData == << 100, 97, 116, 97 >>

\* PCM payloads: one buffer of every length up to MaxPcmLen, all bytes
\* different, and a long buffer of zero samples
PcmBuffer(n) == [i \in 1..n |-> (37 * i + 200) % 256]
Silence == [i \in 1..SilenceLen |-> 0]
PcmBuffers == { PcmBuffer(n) : n \in 0..MaxPcmLen } \cup { Silence }

\* ------------------------------------------------- wave.open(buf, 'wb')
\* _write_header(initlength): the header first written by writeframes
WaveHeader(nch, sw, rate, datalength) ==
    TagRIFF \o U32LE(36 + datalength) \o TagWAVE \o TagFmt \o U32LE(16)
    \o U16LE(1) \o U16LE(nch) \o U32LE(rate) \o U32LE(nch * rate * sw)
    \o U16LE(nch * sw) \o U16LE(sw * 8) \o TagData \o U32LE(datalength)

\* WriteWav with the two bytes of every sample exchanged
WriteWav_Recode(audio_data) ==
    WaveHeader(NChannels, SampWidth, FrameRate, Len(audio_data))
    \o [i \in 1..Len(audio_data) |->
          IF i % 2 = 1 /\ i < Len(audio_data) THEN audio_data[i + 1]
          ELSE IF i % 2 = 0 THEN audio_data[i - 1]
          ELSE audio_data[i]]

\* WriteWav with the header's length fields left at their initial value
WriteWav_NoLength(audio_data) ==
    WaveHeader(NChannels, SampWidth, FrameRate, 0) \o audio_data

\* setnchannels(1); setsampwidth(2); setframerate(24000); writeframes(data):
\* the header is written for len(data) // framesize whole frames, the data
\* is written verbatim, and the two length fields are patched to the bytes
\* actually written when they differ.
WriteWav(audio_data) ==
    LET framesize  == NChannels * SampWidth
        nframes    == Len(audio_data) \div framesize
        datalength == nframes * framesize
        datawritten == Len(audio_data)
        patched    == IF datalength # datawritten THEN datawritten
                                                  ELSE datalength
    IN  WaveHeader(NChannels, SampWidth, FrameRate, patched) \o audio_data

\* ------------------------------------------------- wave.open(buf, 'rb')
WaveError == [error |-> "wave.Error"]

ReadWav(c) ==
    IF Len(c) < HeaderSize
         \/ SubSeq(c, 1, 4) # TagRIFF \/ SubSeq(c, 9, 12) # TagWAVE
         \/ SubSeq(c, 13, 16) # TagFmt \/ RdU16(c, 20) # 1
         \/ SubSeq(c, 37, 40) # TagData
    THEN WaveError
    ELSE LET nch       == RdU16(c, 22)
             rate      == RdU32(c, 24)
             blockal   == RdU16(c, 32)
             bits      == RdU16(c, 34)
             sw        == (bits + 7) \div 8
             framesize == nch * sw
             chunksize == RdU32(c, 40)
             nframes   == chunksize \div framesize
             avail     == IF chunksize < Len(c) - HeaderSize
                          THEN chunksize ELSE Len(c) - HeaderSize
             want      == nframes * framesize
             got       == IF want < avail THEN want ELSE avail
         IN  [error |-> "", nchannels |-> nch, sampwidth |-> sw,
              framerate |-> rate, nframes |-> nframes,
              datalength |-> chunksize,
              frames |-> SubSeq(c, HeaderSize + 1, HeaderSize + got)]

\* ------------------------------------------------------------------ state
VARIABLES
    api_key,          \* the environment's GOOGLE_API_KEY
    module,           \* Story_Generation import: "unloaded", "failed", "ready"
    client,           \* TRUE once genai.Client has been constructed
    uploaded_images,  \* value of the file_uploader widget
    story_type,       \* value of the selectbox
    generated_story,  \* st.session_state["generated_story"], or Absent
    files,            \* temporary files that exist on disk
    ui,               \* messages shown by the last script run
    gen_call,         \* generation requests sent by the last run
    gen_reply,        \* replies of the generation service in that run
    gen_result,       \* outcomes of generate_story_from_images in that run
    tts_reply,        \* replies of the synthesis service in that run
    audio,            \* outcome of generate_audio_from_generated_story
    fs,               \* file system and player faults met by that run
    played            \* buffers handed to st.audio by the last run

vars == << api_key, module, client, uploaded_images, story_type,
           generated_story, files, ui, gen_call, gen_reply, gen_result,
           tts_reply, audio, fs, played >>

\* ------------------------------------------------ Story_Generation.py
\* module load: api_key = os.getenv(...); if not api_key: raise ValueError;
\* client = genai.Client(api_key=api_key)
\* LoadOutcome testing "api_key is None" in place of "not api_key"
LoadOutcome_NoneOnly(key) ==
    IF key = None
    THEN [module |-> "failed", client |-> FALSE]
    ELSE [module |-> "ready",  client |-> TRUE]

LoadOutcome(key) ==
    IF key = None \/ key = ""
    THEN [module |-> "failed", client |-> FALSE]
    ELSE [module |-> "ready",  client |-> TRUE]

\* story_prompt that works the story of the session into the template
story_prompt_Session(genre) ==
    [story_type |-> genre, paragraphs |-> 7,
     tones |-> IF generated_story = Absent THEN ToneLines
               ELSE ToneLines \o << [genre |-> genre,
                                      tone |-> generated_story] >>,
     words |-> << 500, 700 >>]

\* the f-string template: the genre is interpolated into the first sentence,
\* the ten tone lines are fixed text
story_prompt(genre) ==
    [story_type |-> genre, paragraphs |-> 7, tones |-> ToneLines,
     words |-> << 500, 700 >>]

\* replies of client.models.generate_content for the story model
GenReplies ==
    [kind : {"raise"}, exc : RemoteErrors, text : {None}]
    \cup [kind : {"return"}, exc : {None}, text : GenTexts]

\* generate_story_from_images sending only the first image
generate_story_from_images_FirstOnly(images, genre, reply) ==
    [call   |-> [model |-> model_name_1, images |-> SubSeq(images, 1, 1),
                 prompt |-> story_prompt(genre)],
     kind   |-> reply.kind,
     exc    |-> reply.exc,
     value  |-> reply.text]

\* generate_story_from_images(images, story_type): one remote call, no
\* try/except; returns response.text
generate_story_from_images(images, genre, reply) ==
    [call   |-> [model |-> model_name_1, images |-> images,
                 prompt |-> story_prompt(genre)],
     kind   |-> reply.kind,
     exc    |-> reply.exc,
     value  |-> reply.text]

\* parts of a synthesis reply (response.candidates[0].content.parts):
\* a part without the inline_data attribute, a text part (inline_data is
\* None), an audio part carrying PCM bytes
Parts ==
    [kind : {"noattr", "text"}, data : {<< >>}]
    \cup [kind : {"audio"}, data : PcmBuffers]

TextPart == [kind |-> "text", data |-> << >>]

\* the parts of a reply: none, or up to MaxLead text parts and then a part
\* of any kind
PartLists ==
    { << >> } \cup { [i \in 1..k |-> TextPart] \o << p >> :
                        k \in 0..MaxLead, p \in Parts }

TtsReplies ==
    [kind : {"raise"}, exc : RemoteErrors, parts : {<< >>}]
    \cup [kind : {"response"}, exc : {None}, parts : PartLists]

\* what the file system and the audio widget do during one audio flow
FsOutcomes ==
    {"ok", "create_fails", "write_fails", "read_fails", "player_fails",
     "unlink_fails"}

\* generate_audio_from_generated_story(story_text): the whole body is inside
\* try/except Exception, every exception returns None.
\*   call    : the synthesis request sent
\*   result  : the returned path, NoPath for None
\*   raised  : the exception that leaves the function: always None
\*   created : the temporary file left on disk by the call, or NoPath
\*   content : the bytes written to it
generate_audio_from_generated_story(story_text, reply, fault, path) ==
    LET call == [model |-> model_name_2, contents |-> story_text,
                 voice |-> "Kore"]
        nothing == [call |-> << call >>, result |-> NoPath, raised |-> None,
                    created |-> NoPath, content |-> << >>]
    IN  IF reply.kind = "raise" THEN nothing
        ELSE IF Len(reply.parts) = 0 THEN nothing           \* IndexError
        ELSE LET audio_part == reply.parts[1]
             IN  IF audio_part.kind = "noattr" THEN nothing \* else branch
                 ELSE IF audio_part.kind = "text" THEN nothing
                                      \* None.data: AttributeError
                 ELSE LET audio_data == audio_part.data
                          wav == WriteWav(audio_data)
                      IN  IF fault = "create_fails" THEN nothing
                          ELSE IF fault = "write_fails"
                          THEN [call |-> << call >>, result |-> NoPath,
                                raised |-> None,
                                created |-> path, content |-> << >>]
                          ELSE [call |-> << call >>, result |-> path,
                                raised |-> None,
                                created |-> path, content |-> wav]

\* ---------------------------------------------------------------- app.py
widgets == << uploaded_images, story_type >>
runout  == << ui, gen_call, gen_reply, gen_result, tts_reply, audio, fs,
             played >>

NoAudio == [call |-> << >>, result |-> NoPath, raised |-> None,
            created |-> NoPath, content |-> << >>]

\* what the user can put into the uploader: no file, one file, and the
\* counts around the limit of ten; the files are numbered in upload order
UploadCounts == {0, 1} \cup ((MaxImages - 1)..MaxUpload)
Uploads == { [i \in 1..n |-> i] : n \in UploadCounts }

Init ==
    /\ api_key \in ApiKeys
    /\ module = "unloaded"
    /\ client = FALSE
    /\ uploaded_images = << >>
    /\ story_type = "Comedy"
    /\ generated_story = Absent
    /\ files = {}
    /\ ui = {}
    /\ gen_call = << >>
    /\ gen_reply = << >>
    /\ gen_result = << >>
    /\ tts_reply = << >>
    /\ audio = NoAudio
    /\ fs = << >>
    /\ played = << >>

\* from Story_Generation import ... (first run of the script)
LoadModule ==
    /\ module = "unloaded"
    /\ module' = LoadOutcome(api_key).module
    /\ client' = LoadOutcome(api_key).client
    /\ UNCHANGED << api_key, widgets, generated_story, files, runout >>

\* TruncateImages keeping the last ten uploads
TruncateImages_Tail(imgs) ==
    IF Len(imgs) > 0 /\ Len(imgs) > MaxImages
    THEN SubSeq(imgs, Len(imgs) - MaxImages + 1, Len(imgs)) ELSE imgs

\* lines 177-179: keep the first ten uploads
TruncateImages(imgs) ==
    IF Len(imgs) > 0 /\ Len(imgs) > MaxImages
    THEN SubSeq(imgs, 1, MaxImages) ELSE imgs

UploadWarning(imgs) ==
    IF Len(imgs) > 0 /\ Len(imgs) > MaxImages THEN {"warn_max_images"} ELSE {}

\* lines 334-374: the story card is drawn whenever the key is present
StoryCard(story) == IF story # Absent THEN {"story_card"} ELSE {}

\* a run of the script with no button pressed
IdleRun(imgs, genre) ==
    /\ uploaded_images' = imgs
    /\ story_type' = genre
    /\ ui' = UploadWarning(imgs) \cup StoryCard(generated_story)
    /\ gen_call' = << >> /\ gen_reply' = << >> /\ gen_result' = << >>
    /\ tts_reply' = << >>
    /\ audio' = NoAudio /\ fs' = << >> /\ played' = << >>
    /\ UNCHANGED << api_key, module, client, generated_story, files >>

\* the user changes the uploaded files
ChangeUpload ==
    /\ module = "ready"
    /\ \E imgs \in Uploads : imgs # uploaded_images /\ IdleRun(imgs, story_type)

\* the user picks another story type
SelectStoryType ==
    /\ module = "ready"
    /\ \E g \in StoryTypes : g # story_type /\ IdleRun(uploaded_images, g)

\* Falsy testing "generated_story is None" in place of "not generated_story"
Falsy_NoneOnly(value) == value = None

\* "if not generated_story": None and the empty string are falsy
Falsy(value) == value = None \/ value = ""

\* StoredStory dropping the session's story when the call raises
StoredStory_ClearOnError(old, called, r) ==
    IF called /\ r.kind = "return" /\ ~Falsy(r.value) THEN r.value
    ELSE IF called /\ r.kind = "raise" THEN Absent
    ELSE old

\* lines 295-323: the session's story after the Generate Story flow: only a
\* truthy return value is assigned, an exception and a falsy value leave
\* the session state alone
StoredStory(old, called, r) ==
    IF called /\ r.kind = "return" /\ ~Falsy(r.value) THEN r.value ELSE old

\* line 396: "generated_story" in st.session_state
HasStory(story) == story # Absent

\* Image.open on each uploaded file, in order
OpenImages(imgs) == [i \in 1..Len(imgs) |-> imgs[i]]

\* lines 259-323: the Generate Story button.  decodable: Image.open
\* succeeds on every file.
ClickGenerateStory ==
    /\ module = "ready"
    /\ \E decodable \in BOOLEAN, reply \in GenReplies :
         LET images == TruncateImages(uploaded_images)
             r      == generate_story_from_images(OpenImages(images),
                                                   story_type, reply)
             called == Len(images) > 0 /\ decodable
             stored == called /\ r.kind = "return" /\ ~Falsy(r.value)
             story  == StoredStory(generated_story, called, r)
             msg    == IF Len(images) = 0 THEN {"warn_no_images"}
                       ELSE IF ~decodable \/ r.kind = "raise"
                            THEN {"error_story_exception"}
                       ELSE IF ~stored THEN {"error_no_story"}
                       ELSE {}
         IN  /\ gen_call' = IF called THEN << r.call >> ELSE << >>
             /\ gen_reply' = IF called THEN << reply >> ELSE << >>
             /\ gen_result' = IF called
                              THEN << [kind |-> r.kind, exc |-> r.exc,
                                       value |-> r.value] >>
                              ELSE << >>
             /\ generated_story' = story
             /\ ui' = UploadWarning(uploaded_images) \cup msg
                      \cup StoryCard(story)
    /\ tts_reply' = << >> /\ audio' = NoAudio /\ fs' = << >>
    /\ played' = << >>
    /\ UNCHANGED << api_key, module, client, widgets, files >>

\* the name tempfile gives the next temporary file
FreshPath == CHOOSE p \in 1..MaxFiles : p \notin files

\* lines 388-495: the Generate Audio button
ClickGenerateAudio ==
    /\ module = "ready"
    /\ Cardinality(files) < MaxFiles
    /\ \E reply \in TtsReplies, f \in FsOutcomes :
         IF ~HasStory(generated_story)
         THEN /\ ui' = UploadWarning(uploaded_images) \cup {"warn_no_story"}
              /\ tts_reply' = << >> /\ audio' = NoAudio /\ played' = << >>
              /\ fs' = << >>
              /\ files' = files
         ELSE LET a == generate_audio_from_generated_story(
                           generated_story, reply, f, FreshPath)
                  \* the flow gets as far as the temporary file
                  reached == generate_audio_from_generated_story(
                                 generated_story, reply, "ok",
                                 FreshPath).created # NoPath
                  exists  == a.result # NoPath   \* os.path.exists
                  read    == exists /\ f # "read_fails"
                  shown   == read /\ f # "player_fails"
                  removed == shown /\ f # "unlink_fails"
                  msg     == IF ~exists THEN {"error_audio_failed"}
                             ELSE IF ~shown THEN {"error_audio_exception"}
                             ELSE {"audio_player", "success_audio"}
              IN  /\ tts_reply' = << reply >>
                  /\ audio' = a
                  /\ fs' = IF reached /\ f # "ok" THEN << f >> ELSE << >>
                  /\ played' = IF shown THEN << a.content >> ELSE << >>
                  /\ files' = IF a.created # NoPath /\ ~removed
                              THEN files \cup {a.created} ELSE files
                  /\ ui' = UploadWarning(uploaded_images)
                           \cup StoryCard(generated_story) \cup msg
    /\ gen_call' = << >> /\ gen_reply' = << >> /\ gen_result' = << >>
    /\ UNCHANGED << api_key, module, client, widgets, generated_story >>

Next ==
    \/ LoadModule
    \/ ChangeUpload
    \/ SelectStoryType
    \/ ClickGenerateStory
    \/ ClickGenerateAudio

Spec == Init /\ [][Next]_vars

TypeOK ==
    /\ api_key \in ApiKeys
    /\ module \in {"unloaded", "failed", "ready"}
    /\ client \in BOOLEAN
    /\ uploaded_images \in Uploads
    /\ story_type \in StoryTypes
    /\ generated_story \in StoryTexts \cup {Absent}
    /\ files \subseteq 1..MaxFiles
    /\ Len(gen_call) <= 1 /\ Len(gen_reply) <= 1 /\ Len(gen_result) <= 1
    /\ Len(tts_reply) <= 1 /\ Len(fs) <= 1 /\ Len(played) <= 1

\* ------------------------------------------------------------ properties
\* the PCM payload the last audio run took from the reply (parts[0])
HasPayload ==
    /\ tts_reply # << >>
    /\ tts_reply[1].kind = "response"
    /\ Len(tts_reply[1].parts) > 0
    /\ tts_reply[1].parts[1].kind = "audio"
Payload == tts_reply[1].parts[1].data

\* the last audio run returned the path of a file holding a container
Encoded == HasPayload /\ audio.result # NoPath
ValidPcm(p) == Len(p) % (SampWidth * NChannels) = 0

\* C1: round trip.  Whenever a payload of whole frames was encoded, decoding
\* the container gives back the payload byte for byte, with the format
\* mono, 2 bytes per sample, 24000 Hz.
C1_RoundTrip ==
    (Encoded /\ ValidPcm(Payload)) =>
        LET d == ReadWav(audio.content)
        IN  /\ d.error = ""
            /\ d.frames = Payload
            /\ d.nchannels = 1 /\ d.sampwidth = 2 /\ d.framerate = 24000

C1_Witness ==
    /\ Encoded /\ ValidPcm(Payload) /\ Len(Payload) = 4
    /\ ReadWav(audio.content).nframes = 2

\* C2: header correctness.  For every payload of whole frames, the empty one
\* included, the data-length field of the header equals the payload length
\* and the container is the 44 byte header plus the payload.
C2_HeaderLength ==
    (Encoded /\ ValidPcm(Payload)) =>
        /\ RdU32(audio.content, 40) = Len(Payload)
        /\ RdU32(audio.content, 4) = 36 + Len(Payload)
        /\ Len(audio.content) = HeaderSize + Len(Payload)

C2_Witness ==
    /\ Encoded /\ Len(Payload) = 0
    /\ Len(audio.content) = HeaderSize

\* C3: malformed PCM.  A payload of odd length is never put into a returned
\* container as it is: the call fails or the payload is cut to whole frames.
C3_OddPayloadNotEmitted ==
    (HasPayload /\ ~ValidPcm(Payload)) =>
        \/ audio.result = NoPath
        \/ LET body == SubSeq(audio.content, HeaderSize + 1,
                              Len(audio.content))
           IN  /\ ValidPcm(body)
               /\ body = SubSeq(Payload, 1, Len(body))

\* C4: a missing credential is fatal.  With GOOGLE_API_KEY unset or empty the
\* module load fails, the client is never constructed and no generation or
\* synthesis request is sent.
C4_MissingCredential ==
    (api_key = None \/ api_key = "") =>
        /\ module \in {"unloaded", "failed"}
        /\ client = FALSE
        /\ gen_call = << >>
        /\ audio.call = << >>

C4_Witness == api_key = "" /\ module = "failed"

\* the genres the prompt template defines
PromptGenres == { ToneLines[i].genre : i \in 1..Len(ToneLines) }

\* C5: invalid genre.  No generation request carries a prompt built for a
\* genre outside the fixed set of ten; such a run reports an error instead.
C5_InvalidGenreRejected ==
    \A i \in 1..Len(gen_call) :
        gen_call[i].prompt.story_type \in PromptGenres

\* C6: image count bound.  Every generation request carries between 1 and 10
\* images, the first ten uploads in their order when more were uploaded, and
\* no request is sent when nothing was uploaded.
C6_ImageBound ==
    /\ \A i \in 1..Len(gen_call) :
         LET sent == gen_call[i].images
             n    == IF Len(uploaded_images) > 10 THEN 10
                     ELSE Len(uploaded_images)
         IN  /\ Len(sent) >= 1 /\ Len(sent) <= 10
             /\ sent = SubSeq(uploaded_images, 1, n)
    /\ (uploaded_images = << >> => gen_call = << >>)

C6_Witness == Len(uploaded_images) >= 11 /\ gen_call # << >>

\* C7: temporary file cleanup.  When the audio flow has ended, no temporary
\* file it created is left on disk.
C7_NoTempFileLeft == files = {}

\* a reply that arrived without any inline audio payload
NoInlineAudio(reply) ==
    /\ reply.kind = "response"
    /\ \A i \in 1..Len(reply.parts) : reply.parts[i].kind # "audio"

\* what the caller of the synthesis function sees of an outcome
Seen(a) == << a.result, a.raised >>

\* what the caller sees when the remote call itself fails
CallFailureResults ==
    { Seen(generate_audio_from_generated_story("s1", r, "ok", 1)) :
        r \in { x \in TtsReplies : x.kind = "raise" } }

\* C8: no audio in the response is a distinct outcome.  A reply without an
\* inline audio payload gives a result the caller can tell apart from the
\* result of a failed call.
C8_NoAudioDistinct ==
    (tts_reply # << >> /\ NoInlineAudio(tts_reply[1])) =>
        Seen(audio) \notin CallFailureResults

ErrorCategories == {"TransportFailure", "AuthFailure", "ServiceError"}

\* C9: remote failures are categorised.  A failed generation call and a
\* failed synthesis call leave the client operation as one of
\* TransportFailure, AuthFailure, ServiceError.
C9_FailuresCategorised ==
    /\ \A i \in 1..Len(gen_result) :
         gen_result[i].kind = "raise" =>
             gen_result[i].exc \in ErrorCategories
    /\ \A i \in 1..Len(tts_reply) :
         tts_reply[i].kind = "raise" => audio.raised \in ErrorCategories

\* C10: prompt content per genre.  The prompt sent for the selected label
\* names that label and has a tone line for that same label.
C10_PromptNamesGenre ==
    \A i \in 1..Len(gen_call) :
        LET prompt == gen_call[i].prompt
        IN  /\ prompt.story_type = story_type
            /\ \E k \in 1..Len(prompt.tones) :
                 prompt.tones[k].genre = story_type

C12_PassThrough ==
    \A i \in 1..Len(gen_call) :
        LET n == IF Len(uploaded_images) > 10 THEN 10
                 ELSE Len(uploaded_images)
        IN  /\ gen_call[i].images = SubSeq(uploaded_images, 1, n)
            /\ gen_call[i].prompt.story_type = story_type
            /\ gen_call[i].model = "gemini-2.5-pro"
            /\ gen_result[i].kind = gen_reply[i].kind
            /\ gen_reply[i].kind = "return" =>
                 gen_result[i].value = gen_reply[i].text

C12_Witness ==
    /\ gen_call # << >>
    /\ Len(gen_call[1].images) >= 3
    /\ story_type = "Comedy"
    /\ gen_reply[1].text = "s1" /\ gen_result[1].value = "s1"

\* the first inline audio payload among the parts of a reply
HasInline(reply) ==
    /\ reply.kind = "response"
    /\ \E i \in 1..Len(reply.parts) : reply.parts[i].kind = "audio"
FirstInline(reply) ==
    LET k == CHOOSE i \in 1..Len(reply.parts) :
                 /\ reply.parts[i].kind = "audio"
                 /\ \A j \in 1..(i - 1) : reply.parts[j].kind # "audio"
    IN  reply.parts[k].data

\* C13: first inline audio payload.  Whenever the reply holds an inline audio
\* payload at any position and the file system works, the function returns
\* a container made of the first such payload.
C13_FirstInlineUsed ==
    (tts_reply # << >> /\ HasInline(tts_reply[1]) /\ fs = << >>) =>
        /\ audio.result # NoPath
        /\ SubSeq(audio.content, HeaderSize + 1, Len(audio.content))
             = FirstInline(tts_reply[1])

\* C14: synthesis only with a stored story.  The story in the session is
\* never empty or None, a synthesis request is sent only with the stored
\* story as its text, and a run that finds no story warns and sends nothing.
C14_SynthesisNeedsStory ==
    /\ generated_story # "" /\ generated_story # None
    /\ audio.call # << >> =>
         /\ generated_story \in StoryTexts
         /\ audio.call[1].contents = generated_story
    /\ generated_story = Absent => (audio.call = << >> /\ tts_reply = << >>)
    /\ "warn_no_story" \in ui =>
         (generated_story = Absent /\ audio.call = << >>)

C14_Witness ==
    /\ audio.call # << >>
    /\ audio.call[1].contents = "s2"
    /\ generated_story = "s2"

\* the last run was a Generate Story flow that failed
StoryFlowFailed ==
    ui \cap {"warn_no_images", "error_no_story", "error_story_exception"}
        # {}

\* C15: a failed story generation leaves the stored story unchanged.  A run
\* of the Generate Story flow that ends with no images, a falsy result or an
\* exception keeps the session's story; the story changes only to a
\* non-empty text the service returned in that run.
C15_FailedRunKeepsStory ==
    [][ /\ StoryFlowFailed' => generated_story' = generated_story
        /\ generated_story' # generated_story =>
             /\ gen_reply' # << >>
             /\ gen_reply'[1].kind = "return"
             /\ gen_reply'[1].text \in StoryTexts
             /\ generated_story' = gen_reply'[1].text ]_vars

C15_Witness ==
    /\ "error_story_exception" \in ui
    /\ gen_reply # << >> /\ gen_reply[1].kind = "raise"
    /\ generated_story = "s1"

====
